---- MODULE Spec2Model ----
(***************************************************************************)
(* A model of generate_dataset.py of NSD-Flat: the record generator        *)
(* generate_dataset (a Python generator, one step per loop stage), the     *)
(* 8-bit quantizer quantize, and the per-trial raster pipeline             *)
(* transform -> apply_mask -> quantize -> flipud.                          *)
(*                                                                         *)
(* External tables (stimulus info, annotations, image store) are modelled  *)
(* as uninterpreted lookups: the value found under key k in table T is the *)
(* term <<T, k>>.  Real numbers are fixed-point integers in units of one   *)
(* tenth, and quantize's arithmetic is done exactly on them.               *)
(***************************************************************************)
EXTENDS Integers, Sequences, FiniteSets, TLC

VARIABLES
    \* ---- generate_dataset: arguments and environment
    split,      \* the split argument
    debug,      \* the debug argument
    rows,       \* number of rows (trials) of every session activity array
    gaps,       \* TRUE when resources of the data directory may be missing
    \* ---- generate_dataset: the generator's frame
    pc,         \* position of the suspended / running generator
    loaded,     \* the resources loaded or built so far
    subid,      \* index of the subject loop (enumerate(SUBS))
    sesid,      \* current session of the sessions loop
    sesEnd,     \* exclusive end of the sessions range
    ii,         \* index of the row loop (enumerate(activity))
    lastKey,    \* key of the last long_stim_info.loc lookup
    rec,        \* the last record yielded
    lastPos,    \* (subject index, session, row) of the last record yielded
    nYielded,   \* number of records yielded so far
    err,        \* "none", or what raised
    \* ---- quantize on a two-element array
    qvmin, qvmax, qdata, qout,
    \* ---- the raster pipeline of one trial
    grid,       \* output of resampler.transform, one value per pixel
    mask,       \* resampler.mask_, TRUE inside the cortical patch
    act,        \* the activity image after the pipeline
    stage       \* "input" before the pipeline ran, "image" after

gvars == <<split, debug, rows, gaps, pc, loaded, subid, sesid, sesEnd, ii,
           lastKey, rec, lastPos, nYielded, err>>
qvars == <<qvmin, qvmax, qdata, qout>>
rvars == <<grid, mask, act, stage>>
vars == <<gvars, qvars, rvars>>

----------------------------------------------------------------------------
(* Module constants of generate_dataset.py *)

NUM_SUBS == 8
\* SUBS[k+1] is the name of the subject with index k; "subjNN" is written NN.
SUBS == [k \in 1..NUM_SUBS |-> k]
NUM_TRIALS == 30000
MAX_SESSIONS == 40
NUM_SESSIONS == <<40, 40, 32, 30, 40, 32, 40, 30>>
TRIALS_PER_SESSION == NUM_TRIALS \div MAX_SESSIONS

\* VMAX = 2.5, in tenths
VMAX == 25

----------------------------------------------------------------------------
(* Bounds of the model *)

\* rows of a short session activity array
SmallRows == 2
\* every session array of a run has one of these row counts
RowCounts == {SmallRows, TRIALS_PER_SESSION, TRIALS_PER_SESSION + 1}
Splits == {"train", "test", "val"}
\* inputs of quantize range over -MaxX..MaxX (tenths)
MaxX == 30
\* (vmin, vmax) pairs given to quantize
QRanges == {<<-VMAX, VMAX>>, <<-10, 20>>, <<-VMAX, -8>>, <<3, 4>>}
\* the raster grid has GridH rows and two columns
GridH == 2
Cells == (0..(GridH - 1)) \X (0..1)
\* values resampler.transform puts into a pixel
GridVals == {-MaxX, 0, 13}

NoRec == [subject_id |-> -1]
NoPos == <<-1, -1, -1>>
NoKey == <<-1, -1>>

\* The parts of the state a specification does not use stay at these values.
QIdle == qvmin = 0 /\ qvmax = 0 /\ qdata = <<>> /\ qout = <<>>
RIdle == grid = <<>> /\ mask = <<>> /\ act = <<>> /\ stage = "off"

----------------------------------------------------------------------------
(* generate_dataset *)

\* A variant of ValidSplit that takes every other value for "test".
ValidSplitAny(sp) == TRUE

\* Lines 85-90: the split values that do not raise
ValidSplit(sp) == sp \in {"train", "test"}

\* A variant of sessions that holds back the last two sessions only.
sessionsLastTwo(sub, sp) ==
    IF sp = "train" THEN <<0, NUM_SESSIONS[sub] - 2>>
    ELSE <<NUM_SESSIONS[sub] - 3, NUM_SESSIONS[sub]>>

\* Lines 85-88: the sessions range of one subject, as <<first, exclusive end>>.
sessions(sub, sp) ==
    IF sp = "train" THEN <<0, NUM_SESSIONS[sub] - 3>>
    ELSE <<NUM_SESSIONS[sub] - 3, NUM_SESSIONS[sub]>>

\* Variants of TrialId: the 1-based session number of the file names, and
\* the other module constant as the stride.
TrialIdOneBased(ses, i) == (ses + 1) * TRIALS_PER_SESSION + i
TrialIdMaxSessions(ses, i) == ses * MAX_SESSIONS + i

\* Line 97: trialid = sesid * TRIALS_PER_SESSION + ii
TrialId(ses, i) == ses * TRIALS_PER_SESSION + i

\* The key of long_stim_info.loc[(subid, trialid)]
MetaKey(sid, trialid) == <<sid, trialid>>

\* External tables: the entry under key k
long_stim_info(k) == <<"long_stim_info", k>>
images(nsdid) == <<"images", nsdid>>
annotations(nsdid) == <<"annotations", nsdid>>
\* One column of a table entry
Col(entry, name) == <<entry, name>>

\* The record dict of one trial
Record(sid, sub, ses, i) ==
    LET trialid == TrialId(ses, i)
        trial_info == long_stim_info(MetaKey(sid, trialid))
        nsdid == Col(trial_info, "nsdId")
        anns == annotations(nsdid)
    IN  [subject_id |-> sid,
         trial_id |-> trialid,
         session_id |-> ses,
         nsd_id |-> nsdid,
         image |-> images(nsdid),
         activity |-> <<"activity", sub, ses, i>>,
         subject |-> sub,
         flagged |-> Col(trial_info, "flagged"),
         BOLD5000 |-> Col(trial_info, "BOLD5000"),
         shared1000 |-> Col(trial_info, "shared1000"),
         coco_split |-> Col(anns, "coco_split"),
         coco_id |-> Col(anns, "coco_id"),
         objects |-> Col(anns, "objects"),
         captions |-> Col(anns, "captions"),
         repetitions |-> Col(trial_info, "_rep")]

RecordFields ==
    {"subject_id", "trial_id", "session_id", "nsd_id", "image", "activity",
     "subject", "flagged", "BOLD5000", "shared1000", "coco_split", "coco_id",
     "objects", "captions", "repetitions"}

\* A variant of Propagate: the failure is caught, the row is skipped and the
\* loops go on.
SwallowAndSkip(kind) ==
    /\ err' = kind
    /\ ii' = IF ii < rows THEN ii + 1 ELSE ii
    /\ UNCHANGED <<pc, subid, sesid, sesEnd, rec, lastPos, nYielded>>

\* An exception leaves the generator: nothing catches it, the frame is gone.
Propagate(kind) ==
    /\ pc' = "error"
    /\ err' = kind
    /\ UNCHANGED <<subid, sesid, sesEnd, ii, rec, lastPos, nYielded>>

\* Variants of DebugReturn: an unconditional return, and no return at all.
DebugReturnAlways(d) == TRUE
DebugReturnNever(d) == FALSE

\* Lines 139-140: `if debug: return` after the row loop of a session
DebugReturn(d) == d

\* What a lookup can find: everything, or the first resource that is missing.
Outcomes(kinds) == IF gaps THEN {"ok"} \cup kinds ELSE {"ok"}

InitGen ==
    /\ split \in Splits
    /\ debug \in BOOLEAN
    /\ rows \in RowCounts
    /\ gaps \in BOOLEAN
    /\ pc = "start"
    /\ loaded = {}
    /\ subid = 0
    /\ sesid = 0
    /\ sesEnd = 0
    /\ ii = 0
    /\ lastKey = NoKey
    /\ rec = NoRec
    /\ lastPos = NoPos
    /\ nYielded = 0
    /\ err = "none"

\* Lines 58-69: the first next() runs the body up to the subject loop.
LoadTables ==
    /\ UNCHANGED <<qvars, rvars>>
    /\ pc = "start"
    /\ loaded' = loaded \cup {"images", "long_stim_info", "annotations"}
    /\ pc' = "subject"
    /\ UNCHANGED <<split, debug, rows, gaps, subid, sesid, sesEnd, ii,
                   lastKey, rec, lastPos, nYielded, err>>

\* Lines 71-91: one subject: masks, resampler, then the sessions of the split.
BeginSubject ==
    /\ UNCHANGED <<qvars, rvars>>
    /\ pc = "subject"
    /\ subid < NUM_SUBS
    /\ loaded' = loaded \cup {"masks", "resampler"}
    /\ IF ValidSplit(split)
       THEN /\ sesid' = sessions(SUBS[subid + 1], split)[1]
            /\ sesEnd' = sessions(SUBS[subid + 1], split)[2]
            /\ pc' = "session"
            /\ UNCHANGED <<subid, ii, rec, lastPos, nYielded, err>>
       ELSE /\ Propagate("split")
    /\ UNCHANGED <<split, debug, rows, gaps, lastKey>>

\* Line 94: load_session_activity, which raises when the .mgh file is missing.
LoadSession ==
    /\ UNCHANGED <<qvars, rvars>>
    /\ pc = "session"
    /\ sesid < sesEnd
    /\ \E found \in Outcomes({"activity"}) :
         IF found = "ok"
         THEN /\ ii' = 0
              /\ pc' = "trial"
              /\ loaded' = loaded \cup {"activity"}
              /\ UNCHANGED <<subid, sesid, sesEnd, rec, lastPos, nYielded, err>>
         ELSE Propagate(found) /\ UNCHANGED loaded
    /\ UNCHANGED <<split, debug, rows, gaps, lastKey>>

\* Lines 96-137: one row: look up, assemble, yield.
AssembleTrial ==
    /\ UNCHANGED <<qvars, rvars>>
    /\ pc = "trial"
    /\ ii < rows
    /\ lastKey' = MetaKey(subid, TrialId(sesid, ii))
    /\ \E found \in Outcomes({"long_stim_info", "images", "annotations"}) :
         IF found = "ok"
         THEN /\ rec' = Record(subid, SUBS[subid + 1], sesid, ii)
              /\ lastPos' = <<subid, sesid, ii>>
              /\ nYielded' = nYielded + 1
              /\ ii' = ii + 1
              /\ UNCHANGED <<pc, subid, sesid, sesEnd, err>>
         ELSE Propagate(found)
    /\ UNCHANGED <<split, debug, rows, gaps, loaded>>

\* Lines 96, 139-140, 93: the row loop is exhausted.
EndSession ==
    /\ UNCHANGED <<qvars, rvars>>
    /\ pc = "trial"
    /\ ii = rows
    /\ IF DebugReturn(debug)
       THEN pc' = "done" /\ UNCHANGED sesid
       ELSE pc' = "session" /\ sesid' = sesid + 1
    /\ UNCHANGED <<split, debug, rows, gaps, loaded, subid, sesEnd, ii,
                   lastKey, rec, lastPos, nYielded, err>>

\* Lines 93, 71: the sessions loop is exhausted.
EndSubject ==
    /\ UNCHANGED <<qvars, rvars>>
    /\ pc = "session"
    /\ sesid = sesEnd
    /\ subid' = subid + 1
    /\ pc' = "subject"
    /\ UNCHANGED <<split, debug, rows, gaps, loaded, sesid, sesEnd, ii,
                   lastKey, rec, lastPos, nYielded, err>>

\* Line 71: the subject loop is exhausted, the generator returns.
Finish ==
    /\ UNCHANGED <<qvars, rvars>>
    /\ pc = "subject"
    /\ subid = NUM_SUBS
    /\ pc' = "done"
    /\ UNCHANGED <<split, debug, rows, gaps, loaded, subid, sesid, sesEnd, ii,
                   lastKey, rec, lastPos, nYielded, err>>

----------------------------------------------------------------------------
(* quantize *)

\* A variant of clip that forgets the upper limit.
clipBelowOnly(x, lo, hi) == IF x < lo THEN lo ELSE x

\* Line 196: np.clip on one element
clip(x, lo, hi) == IF x < lo THEN lo ELSE IF x > hi THEN hi ELSE x

\* A variant of AsUint8 that rounds to the nearest integer.
AsUint8Round(num, den) == ((2 * num + den) \div (2 * den)) % 256

\* Line 198: astype("uint8") of the real num/den (den > 0): the fraction is
\* dropped (toward zero) and the integer is kept modulo 2^8.
AsUint8(num, den) ==
    (IF num >= 0 THEN num \div den ELSE -((-num) \div den)) % 256

\* Lines 196-199, elementwise: 255 * ((clip(x) - vmin) / (vmax - vmin)) is the
\* real 255 * (clip(x) - vmin) over (vmax - vmin).
quantize(data, vmin, vmax) ==
    [k \in DOMAIN data |->
        AsUint8(255 * (clip(data[k], vmin, vmax) - vmin), vmax - vmin)]

GenIdle ==
    /\ split = "train"
    /\ debug = FALSE
    /\ rows = 0
    /\ gaps = FALSE
    /\ pc = "off"
    /\ loaded = {}
    /\ subid = 0
    /\ sesid = 0
    /\ sesEnd = 0
    /\ ii = 0
    /\ lastKey = NoKey
    /\ rec = NoRec
    /\ lastPos = NoPos
    /\ nYielded = 0
    /\ err = "none"

InitQ ==
    /\ GenIdle
    /\ RIdle
    /\ \E r \in QRanges : qvmin = r[1] /\ qvmax = r[2]
    /\ qdata \in (-MaxX..MaxX) \X (-MaxX..MaxX)
    /\ qout = <<>>

\* One call quantize(data, vmin, vmax)
QuantizeCall ==
    /\ qout = <<>>
    /\ qdata # <<>>
    /\ qout' = quantize(qdata, qvmin, qvmax)
    /\ UNCHANGED <<gvars, rvars, qvmin, qvmax, qdata>>

NextQ == QuantizeCall

SpecQ == InitQ /\ [][NextQ]_vars

----------------------------------------------------------------------------
(* The raster pipeline of one trial, lines 110-115 *)

\* resampler.apply_mask(grid, fill_value): pixels outside mask_ get fill_value
apply_mask(g, m, fill_value) ==
    [p \in DOMAIN g |-> IF m[p] THEN g[p] ELSE fill_value]

\* Line 115: np.flipud reverses the rows
flipud(g) == [p \in DOMAIN g |-> g[<<GridH - 1 - p[1], p[2]>>]]

\* A variant of RasterPipeline that masks the quantized image.
RasterPipelineMaskLast(g, m) ==
    flipud(apply_mask(quantize(g, -VMAX, VMAX), m, 0))

\* Lines 111-115 on the output g of resampler.transform
RasterPipeline(g, m) ==
    flipud(quantize(apply_mask(g, m, 0), -VMAX, VMAX))

InitR ==
    /\ GenIdle
    /\ QIdle
    /\ grid \in [Cells -> GridVals]
    /\ mask \in [Cells -> BOOLEAN]
    /\ act = <<>>
    /\ stage = "input"

\* Lines 110-116: the activity image of one trial
Rasterize ==
    /\ stage = "input"
    /\ act' = RasterPipeline(grid, mask)
    /\ stage' = "image"
    /\ UNCHANGED <<gvars, qvars, grid, mask>>

NextR == Rasterize

SpecR == InitR /\ [][NextR]_vars

----------------------------------------------------------------------------
(* The generator alone *)

Init == InitGen /\ QIdle /\ RIdle

Next ==
    \/ LoadTables
    \/ BeginSubject
    \/ LoadSession
    \/ AssembleTrial
    \/ EndSession
    \/ EndSubject
    \/ Finish

Spec == Init /\ [][Next]_vars

----------------------------------------------------------------------------
(* Properties of generate_dataset *)

Yielded == nYielded > 0
\* The subject name of a subject index
NameOf(sid) == sid + 1
\* Sessions of a subject that the claims assign to a split
FirstSession(sub, sp) == IF sp = "train" THEN 0 ELSE NUM_SESSIONS[sub] - 3
EndSessionOf(sub, sp) ==
    IF sp = "train" THEN NUM_SESSIONS[sub] - 3 ELSE NUM_SESSIONS[sub]
RECURSIVE SessionsBefore(_, _)
\* Number of sessions of the split that belong to the subjects before index sid
SessionsBefore(sid, sp) ==
    IF sid = 0 THEN 0
    ELSE SessionsBefore(sid - 1, sp)
         + EndSessionOf(NameOf(sid - 1), sp) - FirstSession(NameOf(sid - 1), sp)
\* Rank of a (subject index, session, row) triple in lexicographic order
Rank(pos, sp) ==
    (SessionsBefore(pos[1], sp) + pos[2] - FirstSession(NameOf(pos[1]), sp)) * rows
    + pos[3]
ValidTriple(pos, sp) ==
    /\ pos[1] \in 0..(NUM_SUBS - 1)
    /\ pos[2] \in FirstSession(NameOf(pos[1]), sp)..(EndSessionOf(NameOf(pos[1]), sp) - 1)
    /\ pos[3] \in 0..(rows - 1)

\* C1: every record yielded has trial_id = session_id * 750 + i, with i the
\* row of the trial in its session array and 750 = 30000 / 40, and the
\* metadata table was read under the key (subject_id, trial_id) of that record.
C1_TrialId ==
    /\ TRIALS_PER_SESSION = 750
    /\ Yielded =>
         /\ lastPos[1] = rec.subject_id
         /\ lastPos[2] = rec.session_id
         /\ rec.trial_id = rec.session_id * (30000 \div 40) + lastPos[3]
         /\ rec.nsd_id = <<<<"long_stim_info", <<rec.subject_id, rec.trial_id>>>>, "nsdId">>
         /\ err = "none" => lastKey = <<rec.subject_id, rec.trial_id>>

\* C1 witness: the record of session 2, row 10 carries trial_id 1510.
C1_Witness ==
    /\ Yielded
    /\ rec.session_id = 2
    /\ lastPos[3] = 10
    /\ rec.trial_id = 1510

\* C2: a train record has session_id in [0, n-3) and a test record has
\* session_id in [n-3, n), n = NUM_SESSIONS[subject]; the sessions loop of a
\* subject runs over exactly that range, and every session 0..n-1 of the
\* subject being generated lies in exactly one of the two ranges.
C2_SplitRanges ==
    /\ Yielded =>
         LET n == NUM_SESSIONS[rec.subject]
         IN  /\ split = "train" => rec.session_id \in 0..(n - 4)
             /\ split = "test" => rec.session_id \in (n - 3)..(n - 1)
    /\ pc \in {"session", "trial"} =>
         LET n == NUM_SESSIONS[SUBS[subid + 1]]
         IN  /\ split = "train" => sesid >= 0 /\ sesid <= sesEnd /\ sesEnd = n - 3
             /\ split = "test" => sesid >= n - 3 /\ sesid <= sesEnd /\ sesEnd = n
    /\ pc = "session" =>
         \A s \in 0..(NUM_SESSIONS[SUBS[subid + 1]] - 1) :
           LET tr == sessions(SUBS[subid + 1], "train")
               te == sessions(SUBS[subid + 1], "test")
           IN  (s >= tr[1] /\ s < tr[2]) # (s >= te[1] /\ s < te[2])

\* C2 witness: the test split emits session 27 of the 30-session subj04.
C2_Witness ==
    /\ Yielded
    /\ split = "test"
    /\ rec.subject = 4
    /\ NUM_SESSIONS[rec.subject] = 30
    /\ rec.session_id = 27

\* C3: without debug, the k-th record yielded is the k-th (subject, session,
\* row) triple of the split in lexicographic order, and a run that returns
\* has yielded every triple.
C3_OneRecordPerTripleInOrder ==
    ~debug =>
      /\ Yielded => ValidTriple(lastPos, split) /\ Rank(lastPos, split) = nYielded - 1
      /\ pc = "done" => nYielded = SessionsBefore(NUM_SUBS, split) * rows

\* C3 witness: a complete train run over sessions of SmallRows rows.
C3_Witness ==
    /\ ~debug
    /\ pc = "done"
    /\ split = "train"
    /\ rows = SmallRows
    /\ lastPos = <<NUM_SUBS - 1, 26, rows - 1>>

\* C4: with debug, every record yielded belongs to the first session of the
\* split of the first subject, the rows come in order, and the generator
\* returns after the last row of that session.
C4_DebugOneSession ==
    debug =>
      /\ Yielded => lastPos = <<0, FirstSession(SUBS[1], split), nYielded - 1>>
      /\ nYielded <= rows
      /\ pc = "done" => nYielded = rows
      /\ nYielded = rows /\ err = "none" => pc \in {"trial", "done"}

\* C4 witness: a debug run of the test split returned after 750 records.
C4_Witness ==
    /\ debug
    /\ pc = "done"
    /\ split = "test"
    /\ nYielded = TRIALS_PER_SESSION
    /\ lastPos = <<0, 37, TRIALS_PER_SESSION - 1>>

\* C5 as stated: an unrecognized split raises before any data is touched:
\* nothing has been loaded or built and no record has been yielded.
C5_FailFast ==
    err = "split" => loaded = {} /\ nYielded = 0

\* C5 as amended: an unrecognized split raises in the first pass of the
\* subject loop, after the image store, the two tables, the masks and the
\* resampler of the first subject were loaded or built, and before any
\* session activity is loaded, any table is read or any record is yielded.
C5_RaisesBeforeSessions ==
    /\ split \notin {"train", "test"} =>
         /\ pc \in {"start", "subject", "error"}
         /\ subid = 0
         /\ "activity" \notin loaded
         /\ lastKey = NoKey
         /\ nYielded = 0
    /\ err = "split" =>
         /\ split \notin {"train", "test"}
         /\ loaded = {"images", "long_stim_info", "annotations", "masks", "resampler"}

\* C5 witness: the error of split "val", raised with the resampler built.
C5_Witness ==
    /\ split = "val"
    /\ pc = "error"
    /\ err = "split"
    /\ "resampler" \in loaded

\* The state of a generator that a missing resource has ended
C6_State ==
    /\ err # "none" => pc = "error"
    /\ err \in {"long_stim_info", "images", "annotations"} =>
         /\ lastPos # <<subid, sesid, ii>>
         /\ lastKey = <<subid, sesid * TRIALS_PER_SESSION + ii>>
         /\ Yielded => Rank(lastPos, split) < Rank(<<subid, sesid, ii>>, split)
    /\ err = "activity" /\ Yielded => <<lastPos[1], lastPos[2]>> # <<subid, sesid>>
    /\ Yielded => DOMAIN rec = RecordFields

\* C6: a missing resource ends the generator with the error: no record of the
\* failing trial (or session) was yielded, nothing is yielded afterwards, and
\* every record yielded had all of its fields.
C6_NoYieldAfterError ==
    /\ []C6_State
    /\ [][err # "none" => UNCHANGED <<pc, rec, nYielded, lastPos, err>>]_vars

\* C6 witness: the annotation of the third trial of a session is missing.
C6_Witness ==
    /\ err = "annotations"
    /\ pc = "error"
    /\ ii = 2
    /\ nYielded >= 2

\* C10: when the session arrays have at most 750 rows, trial_id determines
\* (session_id, row), train ids are below (n-3)*750 and test ids lie in
\* [(n-3)*750, n*750), below NUM_TRIALS.
C10_DistinctTrialIds ==
    rows <= 750 /\ Yielded =>
      LET n == NUM_SESSIONS[rec.subject]
      IN  /\ rec.trial_id \div 750 = lastPos[2]
          /\ rec.trial_id % 750 = lastPos[3]
          /\ split = "train" => rec.trial_id >= 0 /\ rec.trial_id < (n - 3) * 750
          /\ split = "test" =>
               /\ rec.trial_id >= (n - 3) * 750
               /\ rec.trial_id < n * 750
          /\ rec.trial_id < NUM_TRIALS

\* C10 witness: the last row of the last session of subj01 has id 29999.
C10_Witness ==
    /\ Yielded
    /\ rows = 750
    /\ split = "test"
    /\ rec.subject_id = 0
    /\ lastPos = <<0, 39, 749>>
    /\ rec.trial_id = 29999

----------------------------------------------------------------------------
(* Properties of quantize and of the raster pipeline *)

\* C7: for fixed vmin < vmax and inputs a < b, clipped or not,
\* quantize(a) <= quantize(b).
C7_Monotonic ==
    qout # <<>> /\ qvmin < qvmax /\ qdata[1] < qdata[2] => qout[1] <= qout[2]

\* C7 witness: a below vmin and b above vmax, quantized to 0 and 255.
C7_Witness ==
    /\ qout # <<>>
    /\ qvmin = -VMAX /\ qvmax = VMAX
    /\ qdata[1] < qvmin
    /\ qdata[2] > qvmax
    /\ qout[1] = 0 /\ qout[2] = 255

C9_MaskBeforeQuantize ==
    stage = "image" =>
      \A p \in Cells :
        LET src == <<GridH - 1 - p[1], p[2]>>
            x == grid[src]
            c == IF x < -25 THEN -25 ELSE IF x > 25 THEN 25 ELSE x
        IN  /\ ~mask[src] => act[p] = 127
            /\ ~mask[src] => act[p] = quantize(<<0>>, -25, 25)[1]
            /\ mask[src] => act[p] = (255 * (c + 25)) \div 50

\* C9 witness: a masked-out pixel whose transform value is not 0, in a mask
\* that the flip changes.
C9_Witness ==
    /\ stage = "image"
    /\ ~mask[<<GridH - 1, 0>>]
    /\ mask[<<0, 0>>]
    /\ grid[<<GridH - 1, 0>>] = 13
    /\ grid[<<0, 0>>] = -MaxX
    /\ act[<<0, 0>>] = 127
    /\ act[<<GridH - 1, 0>>] = 0

====
